---------------------------- MODULE Spec2Model ----------------------------
(***************************************************************************)
(* Model of pkg/command/k8s/meta.go: the "meta" command of log-cache-cli.  *)
(*                                                                         *)
(* A Go string is a sequence of one-character strings, <<"n","s">> for     *)
(* "ns".  Four specifications share the variables:                        *)
(*   SpecParts  sourceParts applied to every key of a bounded set          *)
(*   SpecDur    cacheDuration and maxDuration over all pairs of            *)
(*              IntWidth-bit timestamps                                    *)
(*   SpecRows   rows(), run and run again on the same mapping              *)
(*   Spec       one invocation of Meta.runE                                *)
(***************************************************************************)
EXTENDS Integers, Sequences, FiniteSets, TLC

VARIABLES
    sourceID,   \* SpecParts: the argument of sourceParts
    parts,      \* SpecParts: its result, or None
    info,       \* SpecDur: the MetaInfo whose duration is computed
    stored,     \* SpecDur: row.Duration, or None
    shown,      \* SpecDur: the value handed to %s at meta.go:106, or None
    cell,       \* SpecDur: the text of the CACHE DURATION cell, or None
    pc,         \* the position of the running function
    meta,       \* the mapping client.Meta returned
    err,        \* the error client.Meta returned
    calls,      \* how often client.Meta was called
    noHeaders,  \* Meta.noHeaders
    rowSeq,     \* the local variable rows of runE / the result of rows()
    prevRows,   \* SpecRows: the result of the previous run on this mapping
    tw,         \* the tabwriter: None, or the lines buffered in it
    out,        \* what reached cmd.OutOrStdout(), a sequence of lines
    writeFailed,\* whether a Write of the output stream failed
    ret         \* the value runE returned, or None

partsVars == <<sourceID, parts>>
durVars   == <<info, stored, shown, cell>>
cmdVars   == <<meta, err, calls, noHeaders, rowSeq, prevRows, tw, out, writeFailed, ret>>
vars      == <<sourceID, parts, info, stored, shown, cell, pc, meta, err, calls,
               noHeaders, rowSeq, prevRows, tw, out, writeFailed, ret>>

None == "none"

-----------------------------------------------------------------------------
(* Bounds *)

\* keys of SpecParts are all strings over Alphabet of at most this length
MaxKeyLen == 7
\* a mapping has at most this many entries
MaxEntries == 2
\* timestamps are IntWidth-bit two's complement integers (int64 in the code)
IntWidth == 8
\* time.Second, in ticks of the model's clock (10^9 ns in the code)
Second == 2

-----------------------------------------------------------------------------
(* Strings *)

\* the segments of a well-formed key, namespace/type/name: the limit of
\* SplitN and the length its result is compared with (meta.go:125-126)
KeySegments == 3

\* the byte values Go's string comparison orders by
Byte == [c \in {"-", "/", "a", "b"} |->
            CASE c = "-" -> 45 [] c = "/" -> 47 [] c = "a" -> 97 [] c = "b" -> 98]

Alphabet == DOMAIN Byte

RECURSIVE StrLess(_, _)
\* Go's s < t on strings: bytewise lexicographic, a proper prefix is smaller
StrLess(s, t) ==
    IF t = <<>> THEN FALSE
    ELSE IF s = <<>> THEN TRUE
    ELSE IF Byte[Head(s)] # Byte[Head(t)] THEN Byte[Head(s)] < Byte[Head(t)]
    ELSE StrLess(Tail(s), Tail(t))

RECURSIVE Strings(_)
\* all strings over Alphabet of length at most n
Strings(n) ==
    IF n = 0 THEN {<<>>}
    ELSE LET S == Strings(n - 1)
         IN  S \cup {<<c>> \o s : c \in Alphabet, s \in {x \in S : Len(x) = n - 1}}

\* the index of the first "/" of s, 0 when there is none (strings.Index)
IndexSlash(s) ==
    IF \E i \in 1..Len(s) : s[i] = "/"
    THEN CHOOSE i \in 1..Len(s) : s[i] = "/" /\ \A j \in 1..(i - 1) : s[j] # "/"
    ELSE 0

RECURSIVE SplitN(_, _)
\* strings.SplitN(s, "/", n) for n > 0: at most n substrings, the last one
\* the unsplit remainder
SplitN(s, n) ==
    LET i == IndexSlash(s)
    IN  IF n <= 1 \/ i = 0 THEN <<s>>
        ELSE <<SubSeq(s, 1, i - 1)>> \o SplitN(SubSeq(s, i + 1, Len(s)), n - 1)

\* strings.Split(s, "/"): every separator splits
SplitAll(s) == SplitN(s, Len(s) + 1)

\* meta.go:125 with the limit dropped: the key is split at every separator
sourcePartsUnlimited(id) ==
    LET p == SplitAll(id)
    IN  IF Len(p) # KeySegments THEN <<id, <<"-">>, <<"-">>>> ELSE <<p[3], p[2], p[1]>>

\* meta.go:129 with the segments returned in key order
sourcePartsKeyOrder(id) ==
    LET p == SplitN(id, KeySegments)
    IN  IF Len(p) # KeySegments THEN <<id, <<"-">>, <<"-">>>> ELSE <<p[1], p[2], p[3]>>

\* sourceParts: <<resourceName, resourceType, namespace>>
sourceParts(id) ==
    LET p == SplitN(id, KeySegments)
    IN  IF Len(p) # KeySegments THEN <<id, <<"-">>, <<"-">>>> ELSE <<p[3], p[2], p[1]>>

\* the number of "/" in s
Slashes(s) == Cardinality({i \in 1..Len(s) : s[i] = "/"})

-----------------------------------------------------------------------------
(* Durations *)

MinInt == -(2 ^ (IntWidth - 1))
MaxInt == 2 ^ (IntWidth - 1) - 1
IntRange == MinInt..MaxInt

\* Go's d % m for m > 0: the remainder has the sign of d
GoRem(d, m) == IF d >= 0 THEN d % m ELSE -((-d) % m)

\* Time.Sub of two instants given in ticks since the epoch: the difference,
\* saturated at the largest and the smallest Duration
Sub(t, u) ==
    LET d == t - u
    IN  IF d > MaxInt THEN MaxInt ELSE IF d < MinInt THEN MinInt ELSE d

\* Duration.Truncate(m): rounds towards zero to a multiple of m
Truncate(d, m) == IF m <= 0 THEN d ELSE d - GoRem(d, m)

\* cacheDuration
cacheDuration(m) ==
    Truncate(Sub(m.NewestTimestamp, m.OldestTimestamp), Second)

\* meta.go:118 with the comparison turned round
maxDurationSmaller(a, b) == IF a < b THEN a ELSE b

\* maxDuration
maxDuration(a, b) == IF a < b THEN b ELSE a

Digit == <<"0", "1", "2", "3", "4", "5", "6", "7", "8", "9">>

RECURSIVE Digits(_)
\* the decimal digits of n >= 0
Digits(n) == IF n < 10 THEN <<Digit[n + 1]>> ELSE Digits(n \div 10) \o <<Digit[(n % 10) + 1]>>

\* the verb %d applied to an integer
FormatInt(n) == IF n < 0 THEN <<"-">> \o Digits(-n) ELSE Digits(n)

\* Duration.String of a whole number of seconds, the verb %s of meta.go:90
\* ("0s", "5s", "3m0s", "1h0m0s", "-5s")
DurationString(d) ==
    LET a == IF d < 0 THEN -d ELSE d
        s == a \div Second
        h == s \div 3600
        m == (s % 3600) \div 60
        body == (IF h > 0 THEN Digits(h) \o <<"h">> ELSE <<>>)
                \o (IF h > 0 \/ m > 0 THEN Digits(m) \o <<"m">> ELSE <<>>)
                \o Digits(s % 60) \o <<"s">>
    IN  IF d < 0 THEN <<"-">> \o body ELSE body

MetaInfo(count, expired, oldest, newest) ==
    [Count |-> count, Expired |-> expired,
     OldestTimestamp |-> oldest, NewestTimestamp |-> newest]

-----------------------------------------------------------------------------
(* The variables a specification does not use keep these values *)

PartsIdle == sourceID = None /\ parts = None
DurIdle   == info = None /\ stored = None /\ shown = None /\ cell = None
CmdIdle   == /\ meta = None /\ err = None /\ calls = 0 /\ noHeaders = FALSE
             /\ rowSeq = None /\ prevRows = None /\ tw = None /\ out = <<>>
             /\ writeFailed = FALSE /\ ret = None

-----------------------------------------------------------------------------
(* SpecParts: sourceParts on every key of at most MaxKeyLen characters *)

InitParts ==
    /\ pc = "sourceParts"
    /\ sourceID \in Strings(MaxKeyLen)
    /\ parts = None
    /\ DurIdle /\ CmdIdle

\* the call sourceParts(sourceID)
CallSourceParts ==
    /\ pc = "sourceParts"
    /\ parts' = sourceParts(sourceID)
    /\ pc' = "parsed"
    /\ UNCHANGED <<sourceID, durVars, cmdVars>>

NextParts == CallSourceParts

SpecParts == InitParts /\ [][NextParts]_vars

-----------------------------------------------------------------------------
(* SpecDur: the cache duration of every pair of timestamps *)

InitDur ==
    /\ pc = "cacheDuration"
    /\ info \in {MetaInfo(0, 0, o, n) : o \in IntRange, n \in IntRange}
    /\ stored = None /\ shown = None /\ cell = None
    /\ PartsIdle /\ CmdIdle

\* meta.go:149, Duration: cacheDuration(v)
StoreDuration ==
    /\ pc = "cacheDuration"
    /\ stored' = cacheDuration(info)
    /\ pc' = "render"
    /\ UNCHANGED <<info, shown, cell, partsVars, cmdVars>>

\* meta.go:106, maxDuration(time.Second, r.Duration) formatted by %s
RenderDuration ==
    /\ pc = "render"
    /\ shown' = maxDuration(Second, stored)
    /\ cell' = DurationString(shown')
    /\ pc' = "rendered"
    /\ UNCHANGED <<info, stored, partsVars, cmdVars>>

NextDur == StoreDuration \/ RenderDuration

SpecDur == InitDur /\ [][NextDur]_vars

-----------------------------------------------------------------------------
(* rows() *)

\* the segments the keys of a mapping are joined from
Segs == {<<"-">>, <<"a", "b">>}

RECURSIVE KeysOfSegs(_)
\* the keys of exactly k segments joined by "/"
KeysOfSegs(k) ==
    IF k = 1 THEN Segs
    ELSE {s \o <<"/">> \o t : s \in Segs, t \in KeysOfSegs(k - 1)}

\* the keys of a mapping: one segment, two, or the three of a well-formed key
Keys == UNION {KeysOfSegs(k) : k \in 1..KeySegments}

\* the MetaInfo values of a mapping: an empty window, and 1m1s and a tick
InfoPool == {MetaInfo(1, 0, 0, 0), MetaInfo(10, 2, 0, 61 * Second + 1)}

RECURSIVE KeySets(_)
\* the sets of at most n keys
KeySets(n) ==
    IF n = 0 THEN {{}}
    ELSE LET P == KeySets(n - 1)
         IN  P \cup {ks \cup {k} : ks \in {x \in P : Cardinality(x) = n - 1}, k \in Keys}

\* map[string]*logcache_v1.MetaInfo with at most MaxEntries entries
Metas == UNION {[ks -> InfoPool] : ks \in KeySets(MaxEntries)}

\* the orders in which range may visit the keys of a map: all of them
Orders(ks) ==
    {o \in [1..Cardinality(ks) -> ks] : \A i, j \in DOMAIN o : i # j => o[i] # o[j]}

\* the row meta.go:146-153 appends for the entry k, v
Row(k, v) ==
    LET p == sourceParts(k)
    IN  [Count |-> v.Count, Expired |-> v.Expired, Duration |-> cacheDuration(v),
         ResourceName |-> p[1], ResourceType |-> p[2], Namespace |-> p[3]]

\* meta.go:163-170 with the resource type compared before the resource name
lessTypeFirst(a, b) ==
    IF StrLess(a.Namespace, b.Namespace) THEN TRUE
    ELSE IF StrLess(b.Namespace, a.Namespace) THEN FALSE
    ELSE IF StrLess(a.ResourceType, b.ResourceType) THEN TRUE
    ELSE IF StrLess(b.ResourceType, a.ResourceType) THEN FALSE
    ELSE StrLess(a.ResourceName, b.ResourceName)

\* the less function of meta.go:155-171
less(a, b) ==
    IF StrLess(a.Namespace, b.Namespace) THEN TRUE
    ELSE IF StrLess(b.Namespace, a.Namespace) THEN FALSE
    ELSE IF StrLess(a.ResourceName, b.ResourceName) THEN TRUE
    ELSE IF StrLess(b.ResourceName, a.ResourceName) THEN FALSE
    ELSE StrLess(a.ResourceType, b.ResourceType)

RECURSIVE Insert(_, _)
\* one pass of the inner loop of insertion sort: x moves left while it is
\* less than its left neighbour
Insert(s, x) ==
    IF s = <<>> \/ ~less(x, s[Len(s)]) THEN Append(s, x)
    ELSE Append(Insert(SubSeq(s, 1, Len(s) - 1), x), s[Len(s)])

RECURSIVE SortSlice(_)
\* sort.Slice on a slice of at most 12 elements: insertion sort
SortSlice(s) ==
    IF s = <<>> THEN <<>>
    ELSE Insert(SortSlice(SubSeq(s, 1, Len(s) - 1)), s[Len(s)])

RECURSIVE DropRepeated(_)
\* s without the rows whose key triple an earlier row has
DropRepeated(s) ==
    IF s = <<>> THEN <<>>
    ELSE LET init == SubSeq(s, 1, Len(s) - 1)
             x == s[Len(s)]
         IN  IF \E i \in 1..Len(init) : ~less(init[i], x) /\ ~less(x, init[i])
             THEN DropRepeated(init)
             ELSE Append(DropRepeated(init), x)

\* rows() collecting one row per parsed triple instead of one per entry
rowsPerTriple(m, order) ==
    SortSlice(DropRepeated([i \in 1..Len(order) |-> Row(order[i], m[order[i]])]))

\* rows(meta), the map visited in the given order
rows(m, order) ==
    SortSlice([i \in 1..Len(order) |-> Row(order[i], m[order[i]])])

-----------------------------------------------------------------------------
(* SpecRows: rows() on every mapping, called and called again *)

InitRows ==
    /\ pc = "rows"
    /\ meta \in Metas
    /\ err = None /\ calls = 0 /\ noHeaders = FALSE
    /\ rowSeq = None /\ prevRows = None /\ tw = None /\ out = <<>>
    /\ writeFailed = FALSE /\ ret = None
    /\ PartsIdle /\ DurIdle

\* the call rows(meta)
CallRows ==
    /\ pc = "rows"
    /\ \E order \in Orders(DOMAIN meta) : rowSeq' = rows(meta, order)
    /\ pc' = "returned"
    /\ UNCHANGED <<meta, err, calls, noHeaders, prevRows, tw, out, writeFailed, ret,
                   partsVars, durVars>>

\* a second run on the same mapping; the first result is kept to compare
RunAgain ==
    /\ pc = "returned"
    /\ prevRows = None
    /\ prevRows' = rowSeq
    /\ rowSeq' = None
    /\ pc' = "rows"
    /\ UNCHANGED <<meta, err, calls, noHeaders, tw, out, writeFailed, ret,
                   partsVars, durVars>>

NextRows == CallRows \/ RunAgain

SpecRows == InitRows /\ [][NextRows]_vars

-----------------------------------------------------------------------------
(* The table: fmt.Fprintf into a tabwriter, and its Flush *)

\* tabwriter.NewWriter(out, minwidth 0, tabwidth 3, padding 3, ' ', 0)
MinWidth == 0
Padding == 3

\* headerArgs, the six cells of the header line
HeaderCells ==
    << <<"R", "E", "S", "O", "U", "R", "C", "E">>,
       <<"T", "Y", "P", "E">>,
       <<"N", "A", "M", "E", "S", "P", "A", "C", "E">>,
       <<"C", "O", "U", "N", "T">>,
       <<"E", "X", "P", "I", "R", "E", "D">>,
       <<"C", "A", "C", "H", "E", " ", "D", "U", "R", "A", "T", "I", "O", "N">> >>

\* the six cells rowFormat makes of a row: five end in a tab, the last in
\* the newline
RowCells(r) ==
    <<r.ResourceName, r.ResourceType, r.Namespace,
      FormatInt(r.Count), FormatInt(r.Expired),
      DurationString(maxDuration(Second, r.Duration))>>

RECURSIVE ColumnWidth(_, _)
\* tabwriter's format: the width of column c over the buffered lines is
\* the widest cell plus the padding, and at least minwidth
ColumnWidth(lines, c) ==
    IF lines = <<>> THEN MinWidth
    ELSE LET rest == ColumnWidth(Tail(lines), c)
             w == Len(Head(lines)[c]) + Padding
         IN  IF w > rest THEN w ELSE rest

RECURSIVE Spaces(_)
Spaces(n) == IF n <= 0 THEN <<>> ELSE <<" ">> \o Spaces(n - 1)

RECURSIVE LineText(_, _, _)
\* tabwriter's writeLines for one line, from cell c on: a cell that ends in
\* a tab is left-aligned and padded with spaces to the width of its column,
\* the last cell is written as it is, then the newline
LineText(cells, widths, c) ==
    IF c = Len(cells) THEN cells[c] \o <<"\n">>
    ELSE cells[c] \o Spaces(widths[c] - Len(cells[c])) \o LineText(cells, widths, c + 1)

\* what Flush writes for the buffered lines, line by line
TableText(lines) ==
    LET widths == [c \in 1..5 |-> ColumnWidth(lines, c)]
    IN  [i \in 1..Len(lines) |-> LineText(lines[i], widths, 1)]

-----------------------------------------------------------------------------
(* Spec: one invocation of Meta.runE *)

EOF == "EOF"
Nil == "nil"
\* the errors of client.Meta other than io.EOF
OtherErrors == {"context deadline exceeded", "connection refused"}
ErrWriting == "Error writing results"

\* a nil map
EmptyMeta == [k \in {} |-> None]

Init ==
    /\ pc = "Meta"
    /\ noHeaders \in BOOLEAN
    /\ meta = None /\ err = None /\ calls = 0
    /\ rowSeq = None /\ prevRows = None /\ tw = None /\ out = <<>>
    /\ writeFailed = FALSE /\ ret = None
    /\ PartsIdle /\ DurIdle

\* meta.go:69, meta, err := client.Meta(ctx): a mapping, or an error
CallMeta ==
    /\ pc = "Meta"
    /\ calls' = calls + 1
    /\ \/ meta' \in Metas /\ err' = Nil
       \/ meta' = EmptyMeta /\ err' \in OtherErrors \cup {EOF}
    /\ pc' = "err"
    /\ UNCHANGED <<noHeaders, rowSeq, prevRows, tw, out, writeFailed, ret,
                   partsVars, durVars>>

\* meta.go:71-73 returning the error it was given
ReturnEOFAsError ==
    /\ pc = "err" /\ err = EOF
    /\ ret' = err
    /\ pc' = "done"
    /\ UNCHANGED <<meta, err, calls, noHeaders, rowSeq, prevRows, tw, out,
                   writeFailed, partsVars, durVars>>

\* meta.go:71-73, io.EOF: return nil
ReturnEOF ==
    /\ pc = "err" /\ err = EOF
    /\ ret' = Nil
    /\ pc' = "done"
    /\ UNCHANGED <<meta, err, calls, noHeaders, rowSeq, prevRows, tw, out,
                   writeFailed, partsVars, durVars>>

\* meta.go:74 treating every error as "no data"
ReturnErrAsSuccess ==
    /\ pc = "err" /\ err \notin {Nil, EOF}
    /\ ret' = Nil
    /\ pc' = "done"
    /\ UNCHANGED <<meta, err, calls, noHeaders, rowSeq, prevRows, tw, out,
                   writeFailed, partsVars, durVars>>

\* meta.go:74, any other error: return err
ReturnErr ==
    /\ pc = "err" /\ err \notin {Nil, EOF}
    /\ ret' = err
    /\ pc' = "done"
    /\ UNCHANGED <<meta, err, calls, noHeaders, rowSeq, prevRows, tw, out,
                   writeFailed, partsVars, durVars>>

\* meta.go:76-78, len(meta) == 0: return nil
ReturnEmpty ==
    /\ pc = "err" /\ err = Nil /\ DOMAIN meta = {}
    /\ ret' = Nil
    /\ pc' = "done"
    /\ UNCHANGED <<meta, err, calls, noHeaders, rowSeq, prevRows, tw, out,
                   writeFailed, partsVars, durVars>>

\* meta.go:79, rows := rows(meta)
BuildRows ==
    /\ pc = "err" /\ err = Nil /\ DOMAIN meta # {}
    /\ \E order \in Orders(DOMAIN meta) : rowSeq' = rows(meta, order)
    /\ pc' = "header"
    /\ UNCHANGED <<meta, err, calls, noHeaders, prevRows, tw, out, writeFailed, ret,
                   partsVars, durVars>>

\* meta.go:92-95 writing the header whatever noHeaders says
WriteHeaderAlways ==
    /\ pc = "header"
    /\ tw' = <<HeaderCells>>
    /\ pc' = "rows"
    /\ UNCHANGED <<meta, err, calls, noHeaders, rowSeq, prevRows, out, writeFailed,
                   ret, partsVars, durVars>>

\* meta.go:92-95, the new tabwriter and, unless noHeaders, the header line
WriteHeader ==
    /\ pc = "header"
    /\ tw' = IF noHeaders THEN <<>> ELSE <<HeaderCells>>
    /\ pc' = "rows"
    /\ UNCHANGED <<meta, err, calls, noHeaders, rowSeq, prevRows, out, writeFailed,
                   ret, partsVars, durVars>>

\* the lines the tabwriter holds before the first row
HeaderLines == IF noHeaders THEN 0 ELSE 1

\* meta.go:97-108, one iteration: the next row is formatted into the
\* tabwriter, which buffers it
WriteRow ==
    /\ pc = "rows"
    /\ Len(tw) - HeaderLines < Len(rowSeq)
    /\ tw' = Append(tw, RowCells(rowSeq[Len(tw) - HeaderLines + 1]))
    /\ UNCHANGED <<pc, meta, err, calls, noHeaders, rowSeq, prevRows, out,
                   writeFailed, ret, partsVars, durVars>>

\* meta.go:110-114 with the error of Flush dropped
FlushUnchecked ==
    /\ pc = "rows"
    /\ Len(tw) - HeaderLines = Len(rowSeq)
    /\ LET text == TableText(tw)
       IN  \E n \in 0..Len(tw) :
              /\ out' = SubSeq(text, 1, n)
              /\ writeFailed' = (n < Len(tw))
    /\ ret' = Nil
    /\ pc' = "done"
    /\ UNCHANGED <<meta, err, calls, noHeaders, rowSeq, prevRows, tw,
                   partsVars, durVars>>

\* meta.go:110-114, tw.Flush() and the return: the output stream takes the
\* first n lines; when a Write fails Flush stops and returns its error
Flush ==
    /\ pc = "rows"
    /\ Len(tw) - HeaderLines = Len(rowSeq)
    /\ LET text == TableText(tw)
       IN  \E n \in 0..Len(tw) :
              /\ out' = SubSeq(text, 1, n)
              /\ writeFailed' = (n < Len(tw))
              /\ ret' = IF n < Len(tw) THEN ErrWriting ELSE Nil
    /\ pc' = "done"
    /\ UNCHANGED <<meta, err, calls, noHeaders, rowSeq, prevRows, tw,
                   partsVars, durVars>>

Next ==
    \/ CallMeta
    \/ ReturnEOF
    \/ ReturnErr
    \/ ReturnEmpty
    \/ BuildRows
    \/ WriteHeader
    \/ WriteRow
    \/ Flush

Spec == Init /\ [][Next]_vars

-----------------------------------------------------------------------------
(* Properties of sourceParts, under SpecParts *)

WholeKey(id) == <<id, <<"-">>, <<"-">>>>

\* C1, as claimed: a key that does not have exactly two "/" comes back whole,
\* as (key, "-", "-"), keys with more than two "/" included
C1_WholeKeyUnlessTwoSlashes ==
    (pc = "parsed" /\ Slashes(sourceID) # 2) => parts = WholeKey(sourceID)

\* C1, amended: a key with no or one "/" comes back whole, as (key, "-", "-");
\* a key with more than two "/" is cut at its first two "/" only: the
\* namespace and the resource type hold no "/", the resource name is all
\* that follows the second "/", and namespace/type/name is the key again
C1_WholeKeyBelowTwoSlashes ==
    pc = "parsed" =>
        /\ Slashes(sourceID) < 2 => parts = WholeKey(sourceID)
        /\ Slashes(sourceID) > 2 =>
              /\ parts[3] \o <<"/">> \o parts[2] \o <<"/">> \o parts[1] = sourceID
              /\ Slashes(parts[3]) = 0
              /\ Slashes(parts[2]) = 0
              /\ Slashes(parts[1]) = Slashes(sourceID) - 2

\* the key "a/b/a/b" was parsed into the name "a/b", the type "b", the
\* namespace "a"
C1_Witness ==
    /\ pc = "parsed"
    /\ sourceID = <<"a", "/", "b", "/", "a", "/", "b">>
    /\ parts = << <<"a", "/", "b">>, <<"b">>, <<"a">> >>

\* C4: of a key ns/type/name with exactly two "/", the third segment is the
\* resource name, the second the resource type, the first the namespace
C4_ThreeSegments ==
    (pc = "parsed" /\ Slashes(sourceID) = 2) =>
        parts[3] \o <<"/">> \o parts[2] \o <<"/">> \o parts[1] = sourceID

\* the key "a/b/-" was parsed into the name "-", the type "b", the
\* namespace "a"
C4_Witness ==
    /\ pc = "parsed"
    /\ sourceID = <<"a", "/", "b", "/", "-">>
    /\ parts = << <<"-">>, <<"b">>, <<"a">> >>

-----------------------------------------------------------------------------
(* Properties of the cache duration, under SpecDur *)

\* newest - oldest, held to the range of a Duration as Time.Sub holds it
Window == 
    LET d == info.NewestTimestamp - info.OldestTimestamp
    IN  IF d > MaxInt THEN MaxInt ELSE IF d < MinInt THEN MinInt ELSE d

\* C5: the stored duration is the window cut towards zero to whole seconds,
\* and the clamp leaves it so; the rendered duration is exactly 1 second
\* ("1s") when the stored one is <= 0, the stored one unchanged when that is
\* above 1 second, and never below 1 second
C5_DurationFloor ==
    pc = "rendered" =>
        /\ stored % Second = 0
        /\ Window >= 0 => (stored <= Window /\ Window < stored + Second)
        /\ Window < 0 => (stored - Second < Window /\ Window <= stored)
        /\ stored <= 0 => (shown = Second /\ cell = <<"1", "s">>)
        /\ stored > Second => (shown = stored /\ cell = DurationString(stored))
        /\ shown >= Second

\* a window that is negative beyond the range of a Duration was rendered
\* as 1 second
C5_Witness ==
    /\ pc = "rendered"
    /\ info.NewestTimestamp - info.OldestTimestamp < MinInt
    /\ stored < 0
    /\ cell = <<"1", "s">>

-----------------------------------------------------------------------------
(* Properties of rows(), under SpecRows *)

\* C2, as claimed: two runs of rows() on the same mapping return the same
\* sequence of rows
C2_SameRowsOnRerun ==
    (pc = "returned" /\ prevRows # None) => rowSeq = prevRows

SortKey(r) == <<r.Namespace, r.ResourceName, r.ResourceType>>

\* x <= y in the lexicographic order of triples of strings
TripleLeq(x, y) ==
    \/ x = y
    \/ \E k \in 1..3 : /\ \A j \in 1..(k - 1) : x[j] = y[j]
                       /\ StrLess(x[k], y[k])

\* C3: the rows returned are non-decreasing by (namespace, resourceName,
\* resourceType), each level breaking the ties of the one before
C3_RowsSorted ==
    pc = "returned" =>
        \A i \in 1..(Len(rowSeq) - 1) :
            TripleLeq(SortKey(rowSeq[i]), SortKey(rowSeq[i + 1]))

\* two rows of one namespace and one resource name, of different resource
\* types, were returned
C3_Witness ==
    /\ pc = "returned"
    /\ Len(rowSeq) = 2
    /\ rowSeq[1].Namespace = rowSeq[2].Namespace
    /\ rowSeq[1].ResourceName = rowSeq[2].ResourceName
    /\ rowSeq[1].ResourceType # rowSeq[2].ResourceType

\* C9: there is one row per entry of the mapping: as many rows as entries,
\* and the rows are, in some order of the keys, the rows built from the
\* entries, each with the Count and Expired of its entry
C9_OneRowPerEntry ==
    pc = "returned" =>
        /\ Len(rowSeq) = Cardinality(DOMAIN meta)
        /\ \E o \in Orders(DOMAIN meta) :
              \A i \in 1..Len(rowSeq) :
                 /\ rowSeq[i].Count = meta[o[i]].Count
                 /\ rowSeq[i].Expired = meta[o[i]].Expired
                 /\ SortKey(rowSeq[i]) =
                       <<sourceParts(o[i])[3], sourceParts(o[i])[1], sourceParts(o[i])[2]>>

\* two entries whose keys parse to the same triple are two rows
C9_Witness ==
    /\ pc = "returned"
    /\ Len(rowSeq) = 2
    /\ SortKey(rowSeq[1]) = SortKey(rowSeq[2])
    /\ rowSeq[1].Count # rowSeq[2].Count

-----------------------------------------------------------------------------
(* Properties of Meta.runE, under Spec *)

\* runE has returned after creating the tabwriter
Rendered == pc = "done" /\ tw # None

\* C6: when client.Meta returns an empty mapping or fails with io.EOF, runE
\* returns nil and nothing is written, with or without noHeaders: no rows
\* are built and no tabwriter is created
C6_NoDataIsSilentSuccess ==
    (err = EOF \/ (err = Nil /\ DOMAIN meta = {})) =>
        /\ out = <<>>
        /\ tw = None
        /\ rowSeq = None
        /\ pc = "done" => ret = Nil

\* a run without noHeaders whose client.Meta failed with io.EOF has returned
C6_Witness ==
    /\ pc = "done"
    /\ err = EOF
    /\ ~noHeaders
    /\ ret = Nil

\* C7: when client.Meta fails with an error other than io.EOF, runE returns
\* that error, client.Meta was called once, no rows are built and nothing
\* is written
C7_ErrorIsReturned ==
    (err \in OtherErrors) =>
        /\ calls = 1
        /\ out = <<>>
        /\ tw = None
        /\ rowSeq = None
        /\ pc = "done" => ret = err

\* a run whose client.Meta ran into its deadline has returned
C7_Witness ==
    /\ pc = "done"
    /\ err = "context deadline exceeded"
    /\ ret = "context deadline exceeded"

\* C8, as claimed: the output of a run with noHeaders is the output of the
\* run without it on the same rows, less its first line
C8_NoHeadersDropsFirstLine ==
    (Rendered /\ ~writeFailed /\ noHeaders) =>
        out = Tail(TableText(<<HeaderCells>> \o tw))

\* the cells the output is to show: the header's unless noHeaders, then
\* those of the rows in their order
C8_Cells ==
    (IF noHeaders THEN <<>> ELSE <<HeaderCells>>)
        \o [i \in 1..Len(rowSeq) |-> RowCells(rowSeq[i])]

\* the width of each column ending in a tab: its widest cell plus the gap
C8_Widths(cells) ==
    [c \in 1..5 |->
        Padding + CHOOSE w \in {Len(cells[i][c]) : i \in 1..Len(cells)} :
                     \A i \in 1..Len(cells) : Len(cells[i][c]) <= w]

RECURSIVE C8_Sum(_, _)
\* w[1] + ... + w[n]
C8_Sum(w, n) == IF n = 0 THEN 0 ELSE C8_Sum(w, n - 1) + w[n]

\* C8, amended: without noHeaders the output is the header line followed by
\* one line per row, with noHeaders it is one line per row and no header
\* line, the rows' cells and order the same; in both, every column starts at
\* the same offset in every line and is as wide as the widest cell among the
\* lines written plus 3 spaces, so the row lines of the two runs agree in
\* their cells but not in their padding when a title is the widest cell
C8_SameCellsAligned ==
    (Rendered /\ ~writeFailed) =>
        LET cells == C8_Cells
            width == C8_Widths(cells)
            offset == [c \in 1..6 |-> C8_Sum(width, c - 1)]
        IN  /\ Len(out) = Len(cells)
            /\ \A i \in 1..Len(out) :
                  /\ Len(out[i]) = offset[6] + Len(cells[i][6]) + 1
                  /\ out[i][Len(out[i])] = "\n"
                  /\ \A c \in 1..5 : \A q \in 1..width[c] :
                        out[i][offset[c] + q] =
                            IF q <= Len(cells[i][c]) THEN cells[i][c][q] ELSE " "
                  /\ \A q \in 1..Len(cells[i][6]) :
                        out[i][offset[6] + q] = cells[i][6][q]

\* a run with noHeaders has written two row lines
C8_Witness ==
    /\ Rendered
    /\ noHeaders
    /\ ~writeFailed
    /\ Len(out) = 2
    /\ Len(rowSeq) = 2

\* C10: once the table is rendered, runE returns "Error writing results"
\* when a Write of the output stream failed, and nil when none did
C10_WriteFailureIsReported ==
    Rendered =>
        /\ writeFailed => ret = ErrWriting
        /\ ~writeFailed => ret = Nil

\* the header line was written, a later Write failed and runE returned the
\* error
C10_Witness ==
    /\ Rendered
    /\ ~noHeaders
    /\ Len(out) = 1
    /\ writeFailed
    /\ ret = ErrWriting

=============================================================================
